---- MODULE Spec2Model ----
(***************************************************************************)
(* Case-study notebooks and their driver script.                           *)
(*                                                                         *)
(* Three notebooks clip outliers around a model fit:                       *)
(*   eb.ipynb        sigma_clip(): a loop over a boolean mask,             *)
(*   the notebook embedded in run_notebooks.sh: a loop that shrinks the    *)
(*                   arrays of `datasets` (Kepler, TESS),                  *)
(*   tess.ipynb      one clipping pass between two calls of build_model.   *)
(* The fit itself (pymc3 / exoplanet) is external: a fit returns a         *)
(* parameter vector map_soln, and the prediction is a function of the      *)
(* parameters and of the time of a sample.  Here a parameter vector is a   *)
(* pair of change points <<c1, c2>> of a step function with the levels     *)
(* PredVals.                                                               *)
(*                                                                         *)
(* A sample of a light curve stands for a block of wt equal cadences (a    *)
(* weight of 1 is a single point), so that light curves of a thousand      *)
(* points are within reach; lengths and sums count cadences.               *)
(*                                                                         *)
(* Real arithmetic is kept exact by doubling: Median2 is twice the         *)
(* median, and |r - med| < k * sqrt(median((r - med)^2)) is compared in    *)
(* squares, 2 * (2r - 2med)^2 < k^2 * 2median((2r - 2med)^2).              *)
(*                                                                         *)
(* run_notebooks.sh is a list of commands run under `set -e`; a command    *)
(* completes or exits nonzero, and the working tree, the remote and the    *)
(* mailbox are what the commands leave.                                    *)
(*                                                                         *)
(* The staged optimisation of a notebook is a chain of xo.optimize calls,  *)
(* each taking the vector the chain holds and returning the next.          *)
(*                                                                         *)
(* Specifications:                                                         *)
(*   Spec        the clipping notebooks, the fit returning any parameters, *)
(*   SpecDet     the same with a deterministic fit, the loops run twice,   *)
(*   SpecScript  run_notebooks.sh, run up to MaxRuns times,                *)
(*   SpecOpt     the chains of xo.optimize calls,                          *)
(*   SpecRaise   the loops with a fit that may raise,                      *)
(*   SpecRv      the data cells of rv-multi.ipynb (instruments),           *)
(*   SpecAperture  the aperture selection cell of tess.ipynb.              *)
(***************************************************************************)
EXTENDS Integers, Sequences, FiniteSets, TLC

VARIABLES
    site,       \* the notebook that runs: "eb", "multi" or "tess"
    fitKind,    \* the fit: AnyFit (any parameters) or one of DetKinds
    x, y, wt,   \* eb, tess: the light curve (times, flux, cadences per sample)
    injected,   \* the samples of the input that were injected as outliers
    mask,       \* eb, tess: the accepted samples (the True entries of the mask)
    num,        \* eb: the accepted count before the pass
    datasets,   \* multi: name -> [t, y, yerr, w, texp]
    i,          \* the number of loop iterations begun
    pc,         \* the position of the notebook
    exit,       \* how the loop was left: "none", "break", "cap"
    model,      \* the samples the latest model was conditioned on
    fits,       \* the number of models fit in this run
    map_soln0,  \* tess: the parameters of the first fit
    fitStart,   \* the vector the latest fit started from
    clipped,    \* the number of cadences the latest pass flagged (multi: per name)
    planned,    \* every pass so far flagged the injected samples and no other
    run,        \* 1: the first run of the loop; 2: the run on its output
    exit1,      \* how the first run was left, once a second run has begun
    given,      \* the samples handed to the current run
    args,       \* run_notebooks.sh: the arguments of the run
    pos,        \* the position in Script of the next command
    status,     \* "idle", "running", "done" (the last command ran), "aborted"
    ran,        \* the commands of this run that completed, in order
    failed,     \* the commands of this run that exited nonzero, in order
    runs,       \* the number of runs begun
    world,      \* the shell, the working tree, the remote and the mailbox
    notebook,   \* staged optimisation: the notebook whose chain of stages runs
    stage,      \* the number of xo.optimize calls of the chain that returned
    start,      \* the starting vector of the chain
    map_soln,   \* the parameter vector the chain holds
    noWorse,    \* no return of xo.optimize so far was lower than its start
    called,     \* the latest call of xo.optimize: its start and its vars
    rvm,        \* rv-multi.ipynb: the tables read, the arrays and the position
    ap          \* tess.ipynb: the aperture selection cell

clipVars == <<site, fitKind, x, y, wt, injected, mask, num, datasets, i, pc,
              exit, model, fits, map_soln0, fitStart, clipped, planned, run, exit1, given>>

shVars == <<args, pos, status, ran, failed, runs, world>>

optVars == <<notebook, stage, start, map_soln, noWorse, called>>

rvVars == <<rvm>>

apVars == <<ap>>

vars == <<clipVars, shVars, optVars, rvVars, apVars>>

----------------------------------------------------------------------------
(* Bounds of the model *)

\* The number of samples of a light curve (eb, tess).
MaxPts == 13
\* The number of samples of the Kepler and of the TESS light curve (multi).
MaxKepler == 6
MaxTess == 6

\* The latest time of any sample.
MaxT == IF MaxPts > MaxKepler + MaxTess THEN MaxPts ELSE MaxKepler + MaxTess

----------------------------------------------------------------------------
(* Program constants *)

EbIters == 10
EbK == 7
MultiIters == 10
MultiK == 7
ClipStop == 10
TessK == 5

----------------------------------------------------------------------------
(* Arithmetic on weighted samples *)

\* The sum of f[c] over the indices c of S that are at most j.
RECURSIVE SumUpTo(_, _, _)
SumUpTo(f, S, j) ==
    IF j = 0 THEN 0
    ELSE (IF j \in S THEN f[j] ELSE 0) + SumUpTo(f, S, j - 1)

\* The sum of f[c] over the indices c of S, a set of indices of the array f.
SumOver(f, S) == SumUpTo(f, S, Len(f))

\* The k-th smallest (k >= 1) of the values v[c], c in S, each counted w[c] times.
Kth(v, w, S, k) ==
    CHOOSE u \in {v[c] : c \in S} :
        /\ SumOver(w, {c \in S : v[c] <= u}) >= k
        /\ SumOver(w, {c \in S : v[c] < u}) < k

\* Twice np.median of the weighted values; of no value it is nan (here 0, never compared).
Median2Of(v, w, S, n) ==
    IF n = 0 THEN 0
    ELSE IF n % 2 = 1 THEN 2 * Kth(v, w, S, (n + 1) \div 2)
    ELSE Kth(v, w, S, n \div 2) + Kth(v, w, S, n \div 2 + 1)

Median2(v, w, S) ==
    CHOOSE m \in {Median2Of(v, w, S, n) : n \in {SumOver(w, S)}} : TRUE

----------------------------------------------------------------------------
(* The fit: parameters and prediction *)

\* The levels of the model prediction.
PredVals == <<0, 1, 12>>

\* A parameter vector: the two change points of the prediction.
Thetas == {th \in (0..MaxT) \X (0..MaxT) : th[1] <= th[2]}

\* xo.eval_in_model: the prediction of the model with parameters theta at time t.
Predict(theta, t) ==
    IF t <= theta[1] THEN PredVals[1]
    ELSE IF t <= theta[2] THEN PredVals[2]
    ELSE PredVals[3]

SetMax(S) == CHOOSE m \in S : \A u \in S : u <= m
SetMin(S) == CHOOSE m \in S : \A u \in S : m <= u

\* Of the fits that may return anything, those are drawn whose first change point
\* is at a sample of the data or before all of them, and whose second is at the
\* first or after all samples: one step, from level 1 to level 2 or to level 3.
OneStep(ts) ==
    {th \in Thetas : th[1] \in ts \cup {0} /\ th[2] \in {th[1], MaxT}}

AllTimes == 1..MaxT

\* A deterministic fit: the parameters are a function of the data alone.
\*   fixed: the same parameters th whatever the data,
\*   last:  a fit that misses the latest sample of the data,
\*   first: a fit that misses the earliest sample of the data.
DetKinds ==
    {[kind |-> "fixed", th |-> th] : th \in OneStep(AllTimes)}
    \cup {[kind |-> "last", th |-> <<0, 0>>], [kind |-> "first", th |-> <<0, 0>>]}

\* start = model.test_point: no start is given to build_model.
TestStart == [given |-> FALSE, at |-> <<0, 0>>]

AnyFit == [kind |-> "any", th |-> <<0, 0>>]

DetFit(f, ts) ==
    IF f.kind = "fixed" \/ ts = {} THEN f.th
    ELSE IF f.kind = "last" THEN <<SetMax(ts) - 1, SetMax(ts) - 1>>
    ELSE <<0, SetMin(ts)>>

\* build_model followed by the staged xo.optimize: the map_soln a fit on the
\* samples at times ts may return.
FitOutcomes(ts) ==
    IF fitKind.kind = "any" THEN OneStep(ts) ELSE {DetFit(fitKind, ts)}

\* The optimisation begun at the start st: from the test point it returns what
\* the fit returns on the samples at times ts; begun at a given vector, the
\* optimiser is taken to stay at it.
FitFrom(st, ts) == IF st.given THEN {st.at} ELSE FitOutcomes(ts)

\* An iteration begun at the solution of an earlier fit.
LoopStartPrevious == [given |-> TRUE, at |-> map_soln0]

\* map_soln = model.test_point, in build_model(mask) of every iteration.
LoopStart == TestStart

\* resid = y - mdl, over the samples S.
Resid(yv, tv, theta, S) == [c \in S |-> yv[c] - Predict(theta, tv[c])]

----------------------------------------------------------------------------
(* The clipping rules *)

\* sigma = np.sqrt(np.median((resid - np.median(resid)) ** 2))
\* (With m2 twice the median of r and q twice the median of d2, d2 is 4 (r - med)^2
\* and q is 8 sigma^2.)
Dev2(r, m2, S) == [c \in S |-> (2 * r[c] - m2) * (2 * r[c] - m2)]

\* The rule with <= for <.
CentredKeepInclusive(k, r, w, S) ==
    UNION {UNION {{c \in S : 2 * Dev2(r, m2, S)[c] <= k * k * q} :
                  q \in {Median2(Dev2(r, m2, S), w, S)}} :
           m2 \in {Median2(r, w, S)}}

\* np.abs(resid - np.median(resid)) < k * sigma
CentredKeep(k, r, w, S) ==
    UNION {UNION {{c \in S : 2 * Dev2(r, m2, S)[c] < k * k * q} :
                  q \in {Median2(Dev2(r, m2, S), w, S)}} :
           m2 \in {Median2(r, w, S)}}

\* rms = np.sqrt(np.median(resid ** 2));  np.abs(resid) < k * rms
UncentredKeep(k, r, w, S) ==
    UNION {{c \in S : 2 * r[c] * r[c] < k * k * q} :
           q \in {Median2([c \in S |-> r[c] * r[c]], w, S)}}

\* The samples of S whose residual lies more than ten robust sigma from the median.
BeyondTen(r, w, S) ==
    UNION {UNION {{c \in S : 2 * Dev2(r, m2, S)[c] > 10 * 10 * q} :
                  q \in {Median2(Dev2(r, m2, S), w, S)}} :
           m2 \in {Median2(r, w, S)}}

\* The scenario of an input with injected outliers: the first pass finds the
\* injected samples beyond ten sigma, and no pass flags any other sample.
AsPlanned(k, r, w, S, inj) ==
    \/ injected = {}
    \/ /\ (i = 0) => inj \subseteq BeyondTen(r, w, S)
       /\ (S \ CentredKeep(k, r, w, S)) \subseteq inj

----------------------------------------------------------------------------
(* eb.ipynb: sigma_clip *)

\* A pass that leaves the mask as it is when it would accept no sample.
EbMaskFloor(theta) ==
    IF CentredKeep(EbK, Resid(y, x, theta, mask), wt, mask) = {}
      THEN mask
      ELSE CentredKeep(EbK, Resid(y, x, theta, mask), wt, mask)

\* The mask computed anew, from the residuals of all samples handed to the run.
EbMaskAnew(theta) ==
    CentredKeep(EbK, Resid(y, x, theta, given), wt, given)

\* mask[mask] = np.abs(resid - np.median(resid)) < 7 * sigma
EbNewMask(theta) ==
    CentredKeep(EbK, Resid(y, x, theta, mask), wt, mask)

\* A loop that runs once more.
EbMoreInclusive(n) == n <= EbIters

\* for i in range(10)
EbMore(n) == n < EbIters

\* A loop left as soon as a pass removes at most one cadence.
EbNearlyConverged(n, s) == n <= s + 1

\* The comparison of the two counts turned into one that never holds.
EbGrown(n, s) == n < s

\* if num == mask.sum(): break
EbConverged(n, s) == n = s

\* One iteration of the loop of sigma_clip.
EbIter ==
    /\ site = "eb"
    /\ pc = "loop"
    /\ \E theta \in FitFrom(LoopStart, {x[c] : c \in mask}) :
         \E new \in {EbNewMask(theta)} : \E s \in {SumOver(wt, new)} :
             /\ mask' = new
             /\ model' = {x[c] : c \in mask}
             /\ fits' = fits + 1
             /\ i' = i + 1
             /\ clipped' = num - s
             /\ planned' = (planned /\ AsPlanned(EbK, Resid(y, x, theta, mask), wt, mask,
                                        mask \cap injected))
             /\ IF EbConverged(num, s)
                  THEN /\ num' = num
                       /\ pc' = "done"
                       /\ exit' = "break"
                  ELSE /\ num' = s
                       /\ IF EbMore(i + 1)
                            THEN pc' = "loop" /\ exit' = exit
                            ELSE pc' = "done" /\ exit' = "cap"
    /\ fitStart' = LoopStart
    /\ UNCHANGED <<site, fitKind, x, y, wt, injected, datasets, map_soln0,
                   run, exit1, given>>
    /\ UNCHANGED <<shVars, optVars, rvVars, apVars>>

----------------------------------------------------------------------------
(* The notebook of run_notebooks.sh: the loop over `datasets` *)

Names == {"Kepler", "TESS"}

Idx(name) == 1..Len(datasets[name].t)

\* len(datasets[name][0])
Cadences(name) == SumOver(datasets[name].w, Idx(name))

\* masks[name] = np.abs(resid - np.median(resid)) < 7 * sigma
MultiMask(theta, name) ==
    CentredKeep(MultiK,
                Resid(datasets[name].y, datasets[name].t, theta, Idx(name)),
                datasets[name].w, Idx(name))

\* masks, for every name
MultiMasks(theta) == [name \in Names |-> MultiMask(theta, name)]

\* clipped[name] = num[name] - masks[name].sum()
MultiClipped(masks) ==
    [name \in Names |-> Cadences(name) - SumOver(datasets[name].w, masks[name])]

\* any for all.
MultiStopAny(c) == \E name \in Names : c[name] < ClipStop

\* A loop left only when a pass flags nothing.
MultiStopNone(c) == \A name \in Names : c[name] = 0

\* The counts of the light curves added up before the comparison.
MultiStopTotal(c) == c["Kepler"] + c["TESS"] < ClipStop

\* if all(c < 10 for c in clipped.values()): break
MultiStop(c) == \A name \in Names : c[name] < ClipStop

\* for i in range(10)
MultiMore(n) == n < MultiIters

\* a[keep]: the entries of the array a at the positions of keep, from position j on.
RECURSIVE Masked(_, _, _)
Masked(a, keep, j) ==
    IF j > Len(a) THEN <<>>
    ELSE (IF j \in keep THEN <<a[j]>> ELSE <<>>) \o Masked(a, keep, j + 1)

\* The error array left as it was.
MultiApplyTwo(d, keep) ==
    [t    |-> Masked(d.t, keep, 1),
     y    |-> Masked(d.y, keep, 1),
     yerr |-> d.yerr,
     w    |-> Masked(d.w, keep, 1),
     texp |-> d.texp]

\* datasets[name][0..2] = datasets[name][0..2][masks[name]]
MultiApply(d, keep) ==
    [t    |-> Masked(d.t, keep, 1),
     y    |-> Masked(d.y, keep, 1),
     yerr |-> Masked(d.yerr, keep, 1),
     w    |-> Masked(d.w, keep, 1),
     texp |-> d.texp]

Times(ds) == UNION {{ds[name].t[j] : j \in 1..Len(ds[name].t)} : name \in Names}

\* The pass went as the scenario of the input has it, in every light curve.
MultiAsPlanned(theta) ==
    \A name \in Names :
        AsPlanned(MultiK,
                  Resid(datasets[name].y, datasets[name].t, theta, Idx(name)),
                  datasets[name].w, Idx(name),
                  {j \in Idx(name) : datasets[name].t[j] \in injected})

\* A mask applied only to a light curve that had 10 or more cadences flagged.
MultiKeepOwn(masks, c, name) ==
    IF c[name] >= ClipStop THEN masks[name] ELSE Idx(name)

\* else: for name in datasets: ... [masks[name]]: every light curve is
\* reduced by its mask, whatever its own count.
MultiKeep(masks, c, name) == masks[name]

\* The masks of the last iteration applied before the loop is left.
MultiAtBreakApplied(ds, masks) ==
    [name \in Names |-> MultiApply(ds[name], masks[name])]

\* break: the statements of the else branch do not run.
MultiAtBreak(ds, masks) == ds

\* One iteration of the sigma clipping loop.
MultiIter ==
    /\ site = "multi"
    /\ pc = "loop"
    /\ \E theta \in FitFrom(LoopStart, Times(datasets)) :
       \E masks \in {MultiMasks(theta)} : \E c \in {MultiClipped(masks)} :
         /\ model' = Times(datasets)
         /\ fits' = fits + 1
         /\ i' = i + 1
         /\ clipped' = c
         /\ planned' = (planned /\ MultiAsPlanned(theta))
         /\ IF MultiStop(c)
              THEN /\ datasets' = MultiAtBreak(datasets, masks)
                   /\ pc' = "done"
                   /\ exit' = "break"
              ELSE /\ datasets' = [name \in Names |->
                                     MultiApply(datasets[name],
                                                MultiKeep(masks, c, name))]
                   /\ IF MultiMore(i + 1)
                        THEN pc' = "loop" /\ exit' = exit
                        ELSE pc' = "done" /\ exit' = "cap"
    /\ fitStart' = LoopStart
    /\ UNCHANGED <<site, fitKind, x, y, wt, injected, mask, num, map_soln0,
                   run, exit1, given>>
    /\ UNCHANGED <<shVars, optVars, rvVars, apVars>>

----------------------------------------------------------------------------
(* tess.ipynb: one clipping pass *)

\* model0, map_soln0 = build_model()
TessFit0 ==
    /\ site = "tess"
    /\ pc = "start"
    /\ \E theta \in FitOutcomes({x[c] : c \in given}) :
         map_soln0' = theta
    /\ model' = {x[c] : c \in given}
    /\ fits' = fits + 1
    /\ fitStart' = TestStart
    /\ pc' = "fit0"
    /\ UNCHANGED <<site, fitKind, x, y, wt, injected, mask, num, datasets, i,
                   exit, clipped, planned, run, exit1, given>>
    /\ UNCHANGED <<shVars, optVars, rvVars, apVars>>

\* mask = np.abs(resid) < 5 * rms
TessNewMask(theta) ==
    UncentredKeep(TessK, Resid(y, x, theta, given), wt, given)

TessClip ==
    /\ site = "tess"
    /\ pc = "fit0"
    /\ mask' = TessNewMask(map_soln0)
    /\ clipped' = SumOver(wt, given \ TessNewMask(map_soln0))
    /\ planned' = (given \ TessNewMask(map_soln0) = injected)
    /\ i' = i + 1
    /\ pc' = "clipped"
    /\ UNCHANGED <<site, fitKind, x, y, wt, injected, num, datasets, exit,
                   model, fits, map_soln0, fitStart, run, exit1, given>>
    /\ UNCHANGED <<shVars, optVars, rvVars, apVars>>

\* The model rebuilt without a start: start = model.test_point.
TessRefitAnew == TestStart

\* build_model(mask, map_soln0): start is map_soln0.
TessRefitStart == [given |-> TRUE, at |-> map_soln0]

\* model, map_soln = build_model(mask, map_soln0)
TessRefit ==
    /\ site = "tess"
    /\ pc = "clipped"
    /\ model' = {x[c] : c \in mask}
    /\ fitStart' = TessRefitStart
    /\ fits' = fits + 1
    /\ pc' = "done"
    /\ UNCHANGED <<site, fitKind, x, y, wt, injected, mask, num, datasets, i,
                   exit, map_soln0, clipped, planned, run, exit1, given>>
    /\ UNCHANGED <<shVars, optVars, rvVars, apVars>>

----------------------------------------------------------------------------
(* A fit that raises *)

\* An exception caught inside the loop, and the iteration begun again.
OnRaiseRetry == "loop"

\* Neither sigma_clip nor the loop of the multi-instrument notebook has a try
\* statement: an exception of build_model or xo.optimize leaves the loop and
\* the function.
OnRaise == "raised"

\* build_model or xo.optimize raises in an iteration of a loop.
FitRaises ==
    /\ site \in {"eb", "multi"}
    /\ pc = "loop"
    /\ pc' = OnRaise
    /\ exit' = "raise"
    /\ UNCHANGED <<site, fitKind, x, y, wt, injected, mask, num, datasets, i,
                   model, fits, map_soln0, fitStart, clipped, planned, run, exit1, given>>
    /\ UNCHANGED <<shVars, optVars, rvVars, apVars>>

----------------------------------------------------------------------------
(* A second run of a loop on the output of the first *)

Rerun ==
    /\ site \in {"eb", "multi"}
    /\ pc = "done"
    /\ run = 1
    /\ run' = 2
    /\ exit1' = exit
    /\ given' = IF site = "eb" THEN mask ELSE Times(datasets)
    /\ num' = IF site = "eb" THEN SumOver(wt, mask) ELSE num
    /\ i' = 0
    /\ pc' = "loop"
    /\ exit' = "none"
    /\ fits' = 0
    /\ model' = {}
    /\ clipped' = IF site = "eb" THEN 0 ELSE [name \in Names |-> 0]
    /\ planned' = TRUE
    /\ UNCHANGED <<site, fitKind, x, y, wt, injected, mask, datasets, map_soln0, fitStart>>
    /\ UNCHANGED <<shVars, optVars, rvVars, apVars>>

----------------------------------------------------------------------------
(* run_notebooks.sh *)

\* The runs of the script that are followed.
MaxRuns == 2
\* The commits `git pull origin master` may bring in, over all runs.
MaxMaster == 1

\* The simple commands of the script, in the order of its lines.  orTrue: the
\* command is followed by `|| true`; inArgument: the command is a command
\* substitution in the arguments of the next command, its exit status unseen.
Cmd(n, l) == [name |-> n, line |-> l, orTrue |-> FALSE, inArgument |-> FALSE]

Script ==
    << Cmd("conda_hook", 5), Cmd("eval_hook", 6), Cmd("unset_hook", 7),
       Cmd("activate_base", 8),
       Cmd("checkout_master", 10), Cmd("pull", 11),
       Cmd("rm_clone", 12), Cmd("clone", 13),
       Cmd("rm_env", 15), Cmd("env_update", 16), Cmd("activate_env", 17),
       Cmd("pip_requirements", 18), Cmd("pip_exoplanet", 19),
       Cmd("cachedir", 21), Cmd("rm_cache", 22), Cmd("export_flags", 23),
       [name |-> "branch_delete", line |-> 25, orTrue |-> TRUE, inArgument |-> FALSE],
       Cmd("checkout_new", 26),
       Cmd("cd_docs", 28), Cmd("env_export", 29),
       Cmd("runner", 31),
       Cmd("cp_setup", 33), Cmd("add_setup", 34), Cmd("add_notebooks", 35),
       Cmd("commit", 37),
       [name |-> "read_key", line |-> 38, orTrue |-> FALSE, inArgument |-> TRUE],
       Cmd("push", 38),
       Cmd("cd_up", 40), Cmd("checkout_master_end", 41), Cmd("deactivate", 42),
       Cmd("mail", 44) >>

\* The command lines of a run.  An argument is the sequence of the words it is
\* made of: "eb" is <<"eb">>, the one argument "eb tess" is <<"eb", "tess">>,
\* the empty argument is <<>>.
ArgLists ==
    { <<>>, << <<"eb">> >>, << <<"eb">>, <<"tess">> >>, << <<"eb", "tess">> >>,
      << <<>> >>, << <<"*">> >> }

\* The entries of the directory docs, where the runner is started.
DocsFiles == << <<"notebooks">>, <<"run_notebooks.py">> >>

\* An unquoted word (pathname expansion): a pattern becomes the names it matches.
Globbed(word) == IF word = "*" THEN DocsFiles ELSE << <<word>> >>

\* The fields of one argument, each expanded, from the k-th word on.
RECURSIVE Fields(_, _)
Fields(arg, k) ==
    IF k > Len(arg) THEN <<>> ELSE Globbed(arg[k]) \o Fields(arg, k + 1)

\* $* without quotes: every argument is split into its words, an empty
\* argument leaves nothing, and the words are expanded.
RECURSIVE Passed(_, _)
Passed(a, k) ==
    IF k > Len(a) THEN <<>> ELSE Fields(a[k], 1) \o Passed(a, k + 1)

\* A script without `set -e`.
AbortsNever(c) == FALSE

\* A script whose push may fail without ending it.
AbortsButPush(c) == ~c.orTrue /\ ~c.inArgument /\ c.name # "push"

\* set -e: a simple command that exits nonzero ends the script, unless it is
\* the left side of `||` or a command substitution inside a command's words.
Aborts(c) == ~c.orTrue /\ ~c.inArgument

\* A shell that skips the notebook runner.
AfterSkipping(k) == IF Script[k].name = "env_export" THEN k + 2 ELSE k + 1

\* The shell runs the commands one after the other.
After(k) == k + 1

\* The state of a command's surroundings in which the command cannot but fail.
CanSucceed(n, w) ==
    CASE n = "clone"         -> w.clone = "none"
      [] n = "env_update"    -> w.clone # "none"
      [] n = "activate_env"  -> w.env # "none"
      [] n = "pip_exoplanet" -> w.clone # "none"
      [] n = "branch_delete" -> w.auto.exists /\ w.head # "auto_notebooks"
      [] n = "checkout_new"  -> ~w.auto.exists
      [] n = "cd_docs"       -> w.cwd = "root"
      [] n = "push"          -> w.auto.exists /\ w.key = "read"
      [] OTHER               -> TRUE

NoBranch == [exists |-> FALSE, base |-> 0, commits |-> <<>>]

\* rm -rf: the directory, in whatever state, is no more.
Removed(dir) == "none"

\* A cache directory that is not removed.
CacheLeft(named, dir) == dir

\* rm -rf $CACHEDIR: the directory CACHEDIR names is no more; with CACHEDIR
\* unset nothing is removed.
CacheRemoved(named, dir) == IF named THEN Removed(dir) ELSE dir

\* The checkout of line 41 without effect.
HeadAfterFirstOnly(n, w) == IF n = "checkout_master" THEN "master" ELSE w.head

\* git checkout master, at line 10 and at line 41.
HeadAfter(n, w) == "master"

\* A branch begun at the branch that was pushed last.
BranchFromPushed(w) ==
    [exists |-> TRUE, base |-> w.remote.base, commits |-> w.remote.commits]

\* git checkout -b auto_notebooks master: the new branch is master, with no
\* commit of its own.
BranchFromMaster(w) == [exists |-> TRUE, base |-> w.master, commits |-> <<>>]

\* The effect of a command that completes.
Effect(n, w) ==
    CASE n = "activate_base"   -> [w EXCEPT !.active = "base"]
      [] n \in {"checkout_master", "checkout_master_end"}
                               -> [w EXCEPT !.head = HeadAfter(n, w)]
      [] n = "pull"            -> w
      [] n = "rm_clone"        -> [w EXCEPT !.clone = Removed(w.clone)]
      [] n = "clone"           -> [w EXCEPT !.clone = "fresh"]
      [] n = "rm_env"          -> [w EXCEPT !.env = Removed(w.env)]
      [] n = "env_update"      -> [w EXCEPT !.env = "fresh"]
      [] n = "activate_env"    -> [w EXCEPT !.active = "./env"]
      [] n = "cachedir"        -> [w EXCEPT !.cachedir = TRUE]
      [] n = "rm_cache"        -> [w EXCEPT !.cache = CacheRemoved(w.cachedir, w.cache)]
      [] n = "export_flags"    -> [w EXCEPT !.flags = w.cachedir]
      [] n = "branch_delete"   -> [w EXCEPT !.auto = NoBranch]
      [] n = "checkout_new"    -> [w EXCEPT !.auto = BranchFromMaster(w),
                                            !.head = "auto_notebooks"]
      [] n = "cd_docs"         -> [w EXCEPT !.cwd = "docs"]
      [] n = "runner"          -> [w EXCEPT !.rendered = TRUE,
                                            !.runnerArgs = <<Passed(args, 1)>>,
                                            !.seen = [clone |-> w.clone, env |-> w.env,
                                                      active |-> w.active,
                                                      cache |-> w.cache, flags |-> w.flags],
                                            !.cache = IF w.flags THEN "used" ELSE w.cache]
      [] n = "commit"          -> IF w.head = "auto_notebooks"
                                    THEN [w EXCEPT !.auto.commits = Append(@, runs)]
                                    ELSE w
      [] n = "read_key"        -> [w EXCEPT !.key = "read"]
      [] n = "push"            -> [w EXCEPT !.remote = w.auto, !.pushes = @ + 1]
      [] n = "cd_up"           -> [w EXCEPT !.cwd = "root"]
      [] n = "deactivate"      -> [w EXCEPT !.active = "base"]
      [] n = "mail"            -> [w EXCEPT !.mails = @ + 1]
      [] OTHER                 -> w

\* The next command, or the end of the script.
Advance(k) ==
    IF After(k) > Len(Script)
      THEN /\ pos' = After(k)
           /\ status' = "done"
      ELSE /\ pos' = After(k)
           /\ status' = "running"

\* The next command completes.
ShRun ==
    /\ status = "running"
    /\ CanSucceed(Script[pos].name, world)
    /\ world' = Effect(Script[pos].name, world)
    /\ ran' = Append(ran, Script[pos].name)
    /\ Advance(pos)
    /\ UNCHANGED <<args, failed, runs>>
    /\ UNCHANGED <<clipVars, optVars, rvVars, apVars>>

\* git pull origin master brings in a commit.
ShPull ==
    /\ status = "running"
    /\ Script[pos].name = "pull"
    /\ world.master < MaxMaster
    /\ world' = [world EXCEPT !.master = @ + 1]
    /\ ran' = Append(ran, Script[pos].name)
    /\ Advance(pos)
    /\ UNCHANGED <<args, failed, runs>>
    /\ UNCHANGED <<clipVars, optVars, rvVars, apVars>>

\* The next command exits nonzero.
ShFail ==
    /\ status = "running"
    /\ failed' = Append(failed, Script[pos].name)
    /\ IF Aborts(Script[pos])
         THEN /\ status' = "aborted"
              /\ pos' = pos
         ELSE Advance(pos)
    /\ UNCHANGED <<args, ran, runs, world>>
    /\ UNCHANGED <<clipVars, optVars, rvVars, apVars>>

\* What a run leaves is old to the next run.
Aged(v) == IF v = "none" THEN "none" ELSE "stale"

\* The script is started again, in a new shell, with any arguments.
ShStart ==
    /\ status \in {"done", "aborted"}
    /\ runs < MaxRuns
    /\ runs' = runs + 1
    /\ \E a \in ArgLists : args' = a
    /\ pos' = 1
    /\ status' = "running"
    /\ ran' = <<>>
    /\ failed' = <<>>
    /\ world' = [world EXCEPT !.startHead = world.head,
                              !.active = "none", !.cachedir = FALSE, !.flags = FALSE,
                              !.cwd = "root", !.key = "unread", !.rendered = FALSE,
                              !.runnerArgs = <<>>,
                              !.clone = Aged(world.clone), !.env = Aged(world.env),
                              !.cache = Aged(world.cache)]
    /\ UNCHANGED <<clipVars, optVars, rvVars, apVars>>

NothingSeen == [clone |-> "none", env |-> "none", active |-> "none",
                cache |-> "none", flags |-> FALSE]

\* The repository before a run: on master or on a branch auto_notebooks of an
\* earlier run, with or without the directories an earlier run left.
Worlds ==
    {[head |-> h, startHead |-> h, master |-> 0, auto |-> a,
      clone |-> left, env |-> left, cache |-> left,
      active |-> "none", cachedir |-> FALSE, flags |-> FALSE,
      cwd |-> "root", key |-> "unread", rendered |-> FALSE,
      runnerArgs |-> <<>>, seen |-> NothingSeen,
      remote |-> NoBranch, pushes |-> 0, mails |-> 0] :
     h \in {"master", "auto_notebooks"},
     a \in {NoBranch, [exists |-> TRUE, base |-> 0, commits |-> <<0>>]},
     left \in {"none", "stale"}}

\* The script does not run.
ShIdle ==
    /\ args = <<>>
    /\ pos = 1
    /\ status = "idle"
    /\ ran = <<>>
    /\ failed = <<>>
    /\ runs = 0
    /\ world \in {w \in Worlds : w.head = "master" /\ ~w.auto.exists /\ w.clone = "none"}

\* The script is started.
InitScript ==
    /\ args \in ArgLists
    /\ pos = 1
    /\ status = "running"
    /\ ran = <<>>
    /\ failed = <<>>
    /\ runs = 1
    /\ world \in {w \in Worlds : w.head = "auto_notebooks" => w.auto.exists}

----------------------------------------------------------------------------
(* Staged MAP optimisation *)

\* The parameter vectors that are told apart.
MaxPoint == 4

Points == 1..MaxPoint

\* model.logp of a parameter vector: vectors of even number lie above those of
\* odd number.
Logp(p) == IF p % 2 = 0 THEN p ELSE 0 - p

\* The number of xo.optimize calls of the chain of each notebook (the
\* multi-instrument notebook: one call for each of the two light curves, two
\* more for each, and one for all parameters).
Stages ==
    [eb |-> 7, tess |-> 11, quick_tess |-> 5, rv_multi |-> 6,
     stellar_variability |-> 1, ttv |-> 4, multi |-> 7]

Notebooks == DOMAIN Stages

\* vars=None: every free variable of the model.
AllVars == <<"all">>

\* The vars of the xo.optimize calls of each notebook, as they are written.
Chains ==
    [eb |-> << <<"mean_rv", "q">>,
               <<"mean_rv", "sigma_rv1", "sigma_rv2", "S_tot_rv", "ell_rv">>,
               <<"mean_lc", "R1", "k", "s", "b">>,
               <<"mean_lc", "R1", "k", "s", "b", "u1", "u2">>,
               <<"mean_lc", "sigma_lc", "S_tot_lc", "ell_lc">>,
               <<"t0", "period">>,
               AllVars >>,
     tess |-> << <<"logs2", "logSw4", "logw0">>, <<"logr">>, <<"b">>,
                 <<"logP", "t0">>, <<"u_star">>, <<"logr">>, <<"b">>,
                 <<"ecc", "omega">>, <<"mean">>,
                 <<"logs2", "logSw4", "logw0">>, AllVars >>,
     quick_tess |-> << <<"sigma">>, <<"log_ror", "b", "log_dur">>,
                       <<"sigma", "log_Sw4", "log_w0">>, <<"mean", "u">>, AllVars >>,
     rv_multi |-> << <<"means">>, <<"means", "phase">>, <<"means", "phase", "K">>,
                     <<"means", "tp", "K", "P", "ecs">>,
                     <<"sigmas", "S_tot", "ell">>, AllVars >>,
     stellar_variability |-> << AllVars >>,
     ttv |-> << <<"transit_times">>, <<"r", "b">>, <<"transit_times">>, AllVars >>,
     multi |-> << <<"Kepler_mean", "Kepler_u", "Kepler_approx_depth">>,
                  <<"TESS_mean", "TESS_u", "TESS_approx_depth">>,
                  <<"Kepler_mean", "Kepler_u", "Kepler_approx_depth", "dur", "b">>,
                  <<"Kepler_sigma", "Kepler_S_tot">>,
                  <<"TESS_mean", "TESS_u", "TESS_approx_depth", "dur", "b">>,
                  <<"TESS_sigma", "TESS_S_tot">>,
                  AllVars >>]

\* The chain written from its last call to its first.
StageVarsBackwards(nb, k) == Chains[nb][Len(Chains[nb]) + 1 - k]

\* The vars of the k-th call of the chain of notebook nb.
StageVars(nb, k) == Chains[nb][k]

\* xo.optimize(start=..., vars=...): the external optimiser may return any vector.
Optimize(from) == Points

\* Every stage begun from the starting vector of the chain.
StageStartAnew == start

\* map_soln = xo.optimize(map_soln, ...): a stage starts from the vector the
\* chain holds, at first the starting vector.
StageStart == map_soln

\* One call of xo.optimize in the chain; its return is taken as it is.
OptStage ==
    /\ notebook \in Notebooks
    /\ stage < Stages[notebook]
    /\ \E ret \in Optimize(StageStart) :
         /\ map_soln' = ret
         /\ noWorse' = (noWorse /\ Logp(ret) >= Logp(StageStart))
    /\ called' = [from |-> StageStart, vars |-> StageVars(notebook, stage + 1)]
    /\ stage' = stage + 1
    /\ UNCHANGED <<notebook, start>>
    /\ UNCHANGED <<clipVars, shVars, rvVars, apVars>>

\* No chain runs.
OptIdle ==
    /\ notebook = "none"
    /\ stage = 0
    /\ start = 1
    /\ map_soln = 1
    /\ noWorse = TRUE
    /\ called = [from |-> 0, vars |-> <<>>]

\* map_soln = model.test_point
InitOpt ==
    /\ notebook \in Notebooks
    /\ stage = 0
    /\ start \in Points
    /\ map_soln = start
    /\ noWorse = TRUE
    /\ called = [from |-> 0, vars |-> <<>>]

----------------------------------------------------------------------------
(* rv-multi.ipynb: the instruments of the radial velocities *)

\* The rows of the AAT and of the HARPS table that are read.
MaxAat == 2
MaxHarps == 2

\* The times a row may have.
RvTimes == 1..3

\* inst_names = ["aat", "harps_pre", "harps_post"]
NumInst == 3

\* The values of the per-instrument parameters means and sigmas at some point
\* of the parameter space.
Means == <<10, 20, 30>>
Sigmas == <<1, 2, 3>>

\* The AAT table: row k has the velocity 100 + k and the uncertainty k.
AatTables ==
    UNION {[1..n -> RvTimes] : n \in 0..MaxAat}

\* The HARPS table: row k has the velocity 200 + k and the uncertainty 3 + k;
\* post: the date of the row is later than 2015-07-01.
HarpsTables ==
    UNION {[1..n -> [bjd : RvTimes, post : BOOLEAN]] : n \in 0..MaxHarps}

\* np.array(harps.date > "2015-07-01", dtype=int)
HarpsPost(h) == [k \in DOMAIN h |-> IF h[k].post THEN 1 ELSE 0]

\* a[inds]
Take(a, inds) == [k \in DOMAIN inds |-> a[inds[k]]]

\* np.argsort(t): the orders of the positions in rest, after those of done, that
\* sort a; positions of equal entries come in any order.
RECURSIVE ArgSorts(_, _, _)
ArgSorts(a, done, rest) ==
    IF rest = {} THEN {done}
    ELSE UNION {ArgSorts(a, Append(done, j), rest \ {j}) :
                j \in {k \in rest : \A l \in rest : a[k] <= a[l]}}

\* The instrument array left in the order of the tables.
InstIdUnsorted(id, inds) == id

\* inst_id = np.ascontiguousarray(inst_id[inds], dtype=int)
InstIdSorted(id, inds) == Take(id, inds)

\* t, rv, rv_err, inst_id = np.concatenate(...)
RvConcat ==
    /\ rvm.pc = "read"
    /\ rvm' = [rvm EXCEPT
          !.pc = "concatenated",
          !.t = [k \in 1..Len(rvm.aat) |-> rvm.aat[k]]
                \o [k \in 1..Len(rvm.harps) |-> rvm.harps[k].bjd],
          !.rv = [k \in 1..Len(rvm.aat) |-> 100 + k]
                 \o [k \in 1..Len(rvm.harps) |-> 200 + k],
          !.rv_err = [k \in 1..Len(rvm.aat) |-> k]
                     \o [k \in 1..Len(rvm.harps) |-> 3 + k],
          !.inst_id = [k \in 1..Len(rvm.aat) |-> 0]
                      \o [k \in 1..Len(rvm.harps) |-> HarpsPost(rvm.harps)[k] + 1]]
    /\ UNCHANGED <<clipVars, shVars, optVars, apVars>>

\* inds = np.argsort(t); the four arrays indexed by inds
RvSort ==
    /\ rvm.pc = "concatenated"
    /\ \E inds \in ArgSorts(rvm.t, <<>>, DOMAIN rvm.t) :
         rvm' = [rvm EXCEPT
             !.pc = "sorted",
             !.inds = inds,
             !.t = Take(rvm.t, inds),
             !.rv = Take(rvm.rv, inds),
             !.rv_err = Take(rvm.rv_err, inds),
             !.inst_id = InstIdSorted(rvm.inst_id, inds),
             !.mean = [k \in DOMAIN inds |-> 0],
             !.diag = [k \in DOMAIN inds |-> 0]]
    /\ UNCHANGED <<clipVars, shVars, optVars, apVars>>

\* (inst_id == i), as a number
Indicator(id, inst) == IF id = inst THEN 1 ELSE 0

\* for i in range(len(inst_names)):
\*     mean += means[i] * (inst_id == i)
\*     diag += (rv_err ** 2 + sigmas[i] ** 2) * (inst_id == i)
RvAccumulate ==
    /\ rvm.pc = "sorted"
    /\ rvm.i < NumInst
    /\ rvm' = [rvm EXCEPT
          !.i = rvm.i + 1,
          !.mean = [k \in DOMAIN rvm.mean |->
                      rvm.mean[k] + Means[rvm.i + 1] * Indicator(rvm.inst_id[k], rvm.i)],
          !.diag = [k \in DOMAIN rvm.diag |->
                      rvm.diag[k]
                      + (rvm.rv_err[k] * rvm.rv_err[k]
                         + Sigmas[rvm.i + 1] * Sigmas[rvm.i + 1])
                        * Indicator(rvm.inst_id[k], rvm.i)]]
    /\ UNCHANGED <<clipVars, shVars, optVars, apVars>>

RvBlank(a, h, p) ==
    [pc |-> p, aat |-> a, harps |-> h, t |-> <<>>, rv |-> <<>>, rv_err |-> <<>>,
     inst_id |-> <<>>, inds |-> <<>>, mean |-> <<>>, diag |-> <<>>, i |-> 0]

\* The notebook rv-multi does not run.
RvIdle == rvm = RvBlank(<<>>, <<>>, "idle")

\* The two tables are read.
InitRv == \E a \in AatTables, h \in HarpsTables : rvm = RvBlank(a, h, "read")

----------------------------------------------------------------------------
(* tess.ipynb: the selection of the aperture *)

\* The pixels of the image.
MaxPixels == 100

Pixels == 1..MaxPixels

\* for i in range(10, 100)
ApLo == 10
ApHi == 100

\* mean_img.flatten(): the median brightness of the pixels.  A ramp, a peak in
\* the middle of the image (pixels at the same distance from it are equally
\* bright), and terraces of four equally bright pixels.
ImageNames == {"ramp", "peak", "terraces"}

Distance(k, l) == IF k >= l THEN k - l ELSE l - k

MeanImg(name) ==
    [k \in Pixels |->
        CASE name = "ramp" -> k
          [] name = "peak" -> MaxPixels - Distance(k, MaxPixels \div 2)
          [] name = "terraces" -> k \div 4]

\* np.argsort leaves the order of equal entries open: they come by ascending
\* or by descending position.
TieOrders == {"ascending", "descending"}

SortKey(img, ties, k) ==
    img[k] * (MaxPixels + 1) + (IF ties = "ascending" THEN k ELSE MaxPixels - k)

\* The sort keys of the pixels from pixel k on.
RECURSIVE SortKeys(_, _, _)
SortKeys(img, ties, k) ==
    IF k > MaxPixels THEN <<>>
    ELSE <<SortKey(img, ties, k)>> \o SortKeys(img, ties, k + 1)

\* The place of every pixel from pixel k on when the pixels are put in
\* ascending order.
RECURSIVE PlacesAscending(_, _)
PlacesAscending(keys, k) ==
    IF k > Len(keys) THEN <<>>
    ELSE <<Cardinality({l \in DOMAIN keys : keys[l] < keys[k]}) + 1>>
         \o PlacesAscending(keys, k + 1)

\* The place of every pixel from pixel k on in np.argsort(...)[::-1]: the
\* ascending order read from its end.
RECURSIVE Places(_, _)
Places(keys, k) ==
    IF k > Len(keys) THEN <<>>
    ELSE <<Cardinality({l \in DOMAIN keys : keys[l] > keys[k]}) + 1>>
         \o Places(keys, k + 1)

\* The pixels by their places.
ByPlace(places) == [r \in DOMAIN places |-> CHOOSE k \in DOMAIN places : places[k] = r]

\* The pixels from the faintest to the brightest.
OrderFaintestFirst(img, ties) ==
    CHOOSE o \in {ByPlace(places) :
                    places \in {PlacesAscending(keys, 1) :
                                  keys \in {SortKeys(img, ties, 1)}}} : TRUE

\* order = np.argsort(mean_img.flatten())[::-1]
Order(img, ties) ==
    CHOOSE o \in {ByPlace(places) :
                    places \in {Places(keys, 1) :
                                  keys \in {SortKeys(img, ties, 1)}}} : TRUE

\* The light curves told apart by their scatter: it falls towards an aperture
\* of a pixels and towards one of b pixels, where it is d higher.
Sizes == {ApLo, 55, ApHi - 1}

Profiles == [a : Sizes, b : Sizes, d : 0..1]

\* estimate_scatter_with_mask(mask): the scatter of the summed flux of the
\* pixels of msk.
EstimateScatter(prof, msk) ==
    CHOOSE sc \in {(IF Distance(n, prof.a) <= Distance(n, prof.b) + prof.d
                      THEN Distance(n, prof.a) + 1
                      ELSE Distance(n, prof.b) + prof.d + 1) : n \in {Cardinality(msk)}} :
        TRUE

\* msk[np.unravel_index(order[:i], mean_img.shape)] = True
FirstOf(order, n) == {order[r] : r \in {q \in DOMAIN order : q <= n}}

\* The last position of the smallest entry.
ArgMinLast(a) ==
    CHOOSE k \in DOMAIN a :
        /\ \A l \in DOMAIN a : a[k] <= a[l]
        /\ \A l \in DOMAIN a : l > k => a[l] > a[k]

\* np.argmin: the first position of the smallest entry.
ArgMin(a) ==
    CHOOSE k \in DOMAIN a :
        /\ \A l \in DOMAIN a : a[k] <= a[l]
        /\ \A l \in DOMAIN a : l < k => a[l] > a[k]

ApBlank(name, ties, prof, p) ==
    [pc |-> p, image |-> name, ties |-> ties, prof |-> prof, order |-> <<>>,
     i |-> ApLo, masks |-> <<>>, scatters |-> <<>>, pix_mask |-> {}]

\* order = ...; masks, scatters = [], []
ApSort ==
    /\ ap.pc = "image"
    /\ ap' = [ap EXCEPT !.pc = "loop",
                        !.order = Order(MeanImg(ap.image), ap.ties)]
    /\ UNCHANGED <<clipVars, shVars, optVars, rvVars>>

\* One iteration of the loop over range(10, 100).
ApCandidate ==
    /\ ap.pc = "loop"
    /\ ap.i < ApHi
    /\ \E msk \in {FirstOf(ap.order, ap.i)} :
         ap' = [ap EXCEPT !.i = ap.i + 1,
                          !.masks = Append(ap.masks, msk),
                          !.scatters = Append(ap.scatters, EstimateScatter(ap.prof, msk))]
    /\ UNCHANGED <<clipVars, shVars, optVars, rvVars>>

\* pix_mask = masks[np.argmin(scatters)]
ApSelect ==
    /\ ap.pc = "loop"
    /\ ap.i >= ApHi
    /\ ap' = [ap EXCEPT !.pc = "selected",
                        !.pix_mask = ap.masks[ArgMin(ap.scatters)]]
    /\ UNCHANGED <<clipVars, shVars, optVars, rvVars>>

\* No aperture is selected.
ApIdle == ap = ApBlank("ramp", "ascending", [a |-> ApLo, b |-> ApLo, d |-> 0], "idle")

\* The image is there.
InitAp ==
    \E name \in ImageNames, ties \in TieOrders, prof \in Profiles :
        ap = ApBlank(name, ties, prof, "image")

----------------------------------------------------------------------------
(* Inputs *)

Shapes == {"flat", "alt", "saw"}

Flux(shape, t) ==
    IF shape = "flat" THEN 0
    ELSE IF shape = "alt" THEN t % 2
    ELSE t % 3

\* A thousand cadences, five of them injected outliers.
ScenarioY == <<1, 2, 0, 13>>
ScenarioW == <<400, 300, 295, 5>>
ScenarioInjected == {4}

Curves ==
    {[y |-> [c \in 1..MaxPts |-> Flux(sh, c)],
      wt |-> [c \in 1..MaxPts |-> 1],
      injected |-> {}] : sh \in Shapes}
    \cup {[y |-> ScenarioY, wt |-> ScenarioW, injected |-> ScenarioInjected]}

\* The cadences a sample of the Kepler and TESS light curves may stand for.
Weights == {1, 10}

\* A light curve of n samples from time t0 + 1 on.
Curve(sh, t0, n, w) ==
    [t    |-> [j \in 1..n |-> t0 + j],
     y    |-> [j \in 1..n |-> Flux(sh, t0 + j)],
     yerr |-> [j \in 1..n |-> 1],
     w    |-> [j \in 1..n |-> w],
     texp |-> 1]

MultiInputs ==
    {[ds |-> [name \in Names |->
               IF name = "Kepler" THEN Curve(sh, 0, MaxKepler, w)
               ELSE Curve(sh, MaxKepler, MaxTess, w)],
      injected |-> {}] : sh \in Shapes, w \in Weights}
    \cup {[ds |-> [name \in Names |->
               IF name = "Kepler"
                 THEN [t |-> <<1, 2, 3, 4>>, y |-> ScenarioY, yerr |-> <<1, 1, 1, 1>>,
                       w |-> ScenarioW, texp |-> 1]
                 ELSE Curve("saw", 4, 3, 1)],
           injected |-> ScenarioInjected]}

NoData == [name \in Names |-> [t |-> <<>>, y |-> <<>>, yerr |-> <<>>, w |-> <<>>, texp |-> 1]]

InitCurve(s, kinds) ==
    /\ site = s
    /\ fitKind \in kinds
    /\ \E c \in Curves :
         /\ y = c.y
         /\ wt = c.wt
         /\ injected = c.injected
         /\ x = [j \in DOMAIN c.y |-> j]
         /\ mask = DOMAIN c.y
         /\ given = DOMAIN c.y
         /\ num = SumOver(c.wt, DOMAIN c.y)
    /\ datasets = NoData
    /\ pc = IF s = "eb" THEN "loop" ELSE "start"

InitMulti(kinds) ==
    /\ site = "multi"
    /\ fitKind \in kinds
    /\ \E m \in MultiInputs :
         /\ datasets = m.ds
         /\ injected = m.injected
         /\ given = Times(m.ds)
    /\ x = <<>> /\ y = <<>> /\ wt = <<>>
    /\ mask = {}
    /\ num = 0
    /\ pc = "loop"

InitClip(kinds) ==
    /\ \/ InitCurve("eb", kinds)
       \/ InitCurve("tess", kinds)
       \/ InitMulti(kinds)
    /\ i = 0
    /\ exit = "none"
    /\ model = {}
    /\ fits = 0
    /\ map_soln0 = <<0, 0>>
    /\ fitStart = TestStart
    /\ clipped = IF site = "eb" \/ site = "tess" THEN 0 ELSE [name \in Names |-> 0]
    /\ planned = TRUE
    /\ run = 1
    /\ exit1 = "none"

\* No notebook runs.
ClipIdle ==
    /\ site = "none"
    /\ fitKind = AnyFit
    /\ x = <<>> /\ y = <<>> /\ wt = <<>>
    /\ injected = {}
    /\ mask = {}
    /\ num = 0
    /\ datasets = NoData
    /\ i = 0
    /\ pc = "idle"
    /\ exit = "none"
    /\ model = {}
    /\ fits = 0
    /\ map_soln0 = <<0, 0>>
    /\ fitStart = TestStart
    /\ clipped = 0
    /\ planned = TRUE
    /\ run = 1
    /\ exit1 = "none"
    /\ given = {}

----------------------------------------------------------------------------
(* Specifications *)

Init == InitClip({AnyFit}) /\ ShIdle /\ OptIdle /\ RvIdle /\ ApIdle

Next ==
    \/ EbIter
    \/ MultiIter
    \/ TessFit0
    \/ TessClip
    \/ TessRefit

\* The notebooks, with a fit that may return any parameters.
Spec == Init /\ [][Next]_vars

InitDet == InitClip(DetKinds) /\ ShIdle /\ OptIdle /\ RvIdle /\ ApIdle

NextDet ==
    \/ EbIter
    \/ MultiIter
    \/ TessFit0
    \/ TessClip
    \/ TessRefit
    \/ Rerun

\* The notebooks with a deterministic fit, and the loops run twice.
SpecDet == InitDet /\ [][NextDet]_vars

NextRaise ==
    \/ EbIter
    \/ MultiIter
    \/ TessFit0
    \/ TessClip
    \/ TessRefit
    \/ FitRaises

\* The notebooks with a deterministic fit that may raise inside a loop.
SpecRaise == InitDet /\ [][NextRaise]_vars

InitSh == ClipIdle /\ InitScript /\ OptIdle /\ RvIdle /\ ApIdle

NextSh ==
    \/ ShRun
    \/ ShPull
    \/ ShFail
    \/ ShStart

\* The driver script, run up to MaxRuns times.
SpecScript == InitSh /\ [][NextSh]_vars

InitStaged == ClipIdle /\ ShIdle /\ InitOpt /\ RvIdle /\ ApIdle

NextStaged == OptStage

\* The chains of xo.optimize calls, with an optimiser that may return anything.
SpecOpt == InitStaged /\ [][NextStaged]_vars

InitRvMulti == ClipIdle /\ ShIdle /\ OptIdle /\ InitRv /\ ApIdle

NextRvMulti ==
    \/ RvConcat
    \/ RvSort
    \/ RvAccumulate

\* The data cells of rv-multi.ipynb, on any two small tables.
SpecRv == InitRvMulti /\ [][NextRvMulti]_vars

InitAperture == ClipIdle /\ ShIdle /\ OptIdle /\ RvIdle /\ InitAp

NextAperture ==
    \/ ApSort
    \/ ApCandidate
    \/ ApSelect

\* The aperture selection cell of tess.ipynb, on the images and light curves
\* told apart.
SpecAperture == InitAperture /\ [][NextAperture]_vars

----------------------------------------------------------------------------
(* Properties of the clipping loops *)

\* The samples accepted so far, by their times.
Accepted == IF site = "multi" THEN Times(datasets) ELSE {x[c] : c \in mask}

Looping == site \in {"eb", "multi"}

\* The latest pass flagged no cadence.
NoneFlagged ==
    IF site = "multi" THEN \A name \in Names : clipped[name] = 0 ELSE clipped = 0

\* C1: in eb, in the multi-instrument notebook and in tess, no step of a pass
\* accepts a sample that was not accepted before the step: the accepted set
\* only shrinks.
C1_NeverReadmits == [][Accepted' \subseteq Accepted]_vars

\* eb: a pass removed samples after an earlier pass had removed others.
C1_Witness ==
    /\ site = "eb"
    /\ i >= 2
    /\ clipped > 0
    /\ SumOver(wt, given \ mask) > clipped

\* C2: a loop begins at most 10 iterations and fits at most 10 models, one in
\* each iteration, and after the 10th iteration it has ended.
C2_AtMostTen ==
    Looping => /\ i <= 10
               /\ fits = i
               /\ (i = 10 => pc = "done")

\* A loop that ended at the cap, after ten fits.
C2_Witness == Looping /\ exit = "cap" /\ fits = 10 /\ pc = "done"

\* C3 as stated: a second run of the loop on the output of a first run, with
\* the same deterministic fit, removes no sample.
C3_SecondRunClipsNothing == (Looping /\ run = 2) => Accepted = given

\* C3 amended: when the first run left its loop by the break, a second run on
\* its output with the same deterministic fit removes no sample: it fits one
\* model and leaves by the break in its first iteration.
C3_SecondRunAfterBreak ==
    (Looping /\ run = 2 /\ exit1 = "break") =>
        /\ Accepted = given
        /\ i <= 1
        /\ fits = i
        /\ (i = 1 => pc = "done" /\ exit = "break")

\* eb: the first run removed samples and converged, and the second run has ended.
C3_Witness ==
    /\ site = "eb"
    /\ run = 2
    /\ exit1 = "break"
    /\ pc = "done"
    /\ given # DOMAIN y

\* C4: when the first pass flags nothing, the loop has fit exactly one model and
\* has ended by the break in its first iteration, with every sample of the
\* input accepted.
C4_CleanFirstPass ==
    (Looping /\ i = 1 /\ NoneFlagged) =>
        /\ pc = "done"
        /\ exit = "break"
        /\ fits = 1
        /\ Accepted = given

\* The multi-instrument loop after a first pass that flagged nothing.
C4_Witness == site = "multi" /\ i = 1 /\ NoneFlagged /\ pc = "done"

\* C5, the state after a pass: eb has ended exactly if the pass removed nothing
\* or was the 10th, the multi-instrument loop exactly if every light curve had
\* fewer than 10 cadences flagged or the pass was the 10th; the break is taken
\* in the first case.
C5_Exit ==
    (Looping /\ i >= 1) =>
        /\ site = "eb" =>
             /\ (exit = "break") = (clipped = 0)
             /\ (exit = "cap") = (clipped > 0 /\ i = 10)
        /\ site = "multi" =>
             /\ (exit = "break") = (\A name \in Names : clipped[name] < 10)
             /\ (exit = "cap") = ((\E name \in Names : clipped[name] >= 10) /\ i = 10)
        /\ (pc = "done") = (exit # "none")
        /\ (pc = "loop") = (exit = "none")

\* C5, the step of a loop that has not ended: the next model is fit to the
\* samples accepted so far.
C5_Refit ==
    (Looping /\ pc = "loop") => (model' = Accepted /\ fits' = fits + 1)

\* C5: a loop is left in the first iteration that meets its stopping test or
\* after the 10th; otherwise it fits the next model to the reduced data.
C5_ExitsAndRefit == [](C5_Exit) /\ [][C5_Refit]_vars

\* The multi-instrument loop left by its break in a later iteration, with some
\* cadences flagged, after a model fit to reduced data.
C5_Witness ==
    /\ site = "multi"
    /\ exit = "break"
    /\ i >= 2
    /\ model # given
    /\ \E name \in Names : clipped[name] > 0

----------------------------------------------------------------------------
(* The acceptance rule, in the terms of its statement *)

\* u is the k-th smallest of the values v[c], c in S, each counted w[c] times.
IsKth(u, v, w, S, k) ==
    /\ SumOver(w, {c \in S : v[c] < u}) < k
    /\ k <= SumOver(w, {c \in S : v[c] <= u})

\* Twice the median: the sum of the two middle values (the middle value twice,
\* for an odd count).
TwiceMedian(v, w, S) ==
    LET n == SumOver(w, S)
        vals == {v[c] : c \in S}
    IN CHOOSE m \in {a + b : a \in vals, b \in vals} :
           \E a \in vals, b \in vals :
               /\ m = a + b
               /\ IsKth(a, v, w, S, (n + 1) \div 2)
               /\ IsKth(b, v, w, S, n \div 2 + 1)

\* |d| < k * sqrt(median(d^2)), in squares.
Within(k, d, w, S) ==
    IF S = {} THEN {}
    ELSE LET q == TwiceMedian([c \in S |-> d[c] * d[c]], w, S)
         IN {c \in S : 2 * d[c] * d[c] < k * k * q}

\* |r - median(r)| < k * sqrt(median((r - median(r))^2)); the deviations are doubled.
RuleCentred(k, r, w, S) ==
    IF S = {} THEN {}
    ELSE LET m2 == TwiceMedian(r, w, S)
         IN Within(k, [c \in S |-> 2 * r[c] - m2], w, S)

\* |r| < k * sqrt(median(r^2))
RuleUncentred(k, r, w, S) == Within(k, r, w, S)

\* eb: a pass accepts, of the samples accepted so far, those within 7 sigma of
\* the median residual.
C6_EbPass ==
    (site = "eb" /\ pc = "loop") =>
        mask' = RuleCentred(7, Resid(y, x, DetFit(fitKind, {x[c] : c \in mask}), mask),
                            wt, mask)

\* multi: a pass flags, in each light curve, the samples of the current arrays
\* not within 7 sigma of the median residual, and unless the loop is left by
\* the break the arrays keep the others.
C6_MultiPass ==
    (site = "multi" /\ pc = "loop") =>
        \A name \in Names :
            LET d == datasets[name]
                keep == RuleCentred(7, Resid(d.y, d.t, DetFit(fitKind, Times(datasets)),
                                             Idx(name)), d.w, Idx(name))
            IN /\ clipped'[name] = SumOver(d.w, Idx(name) \ keep)
               /\ exit' # "break" => datasets'[name].t = Masked(d.t, keep, 1)

\* C6 as stated: at every clipping site, the single pass of tess included, a
\* pass accepts exactly the samples with
\* |r - median(r)| < k * sqrt(median((r - median(r))^2)), the inequality strict.
C6_CentredEverywhere ==
    [][/\ C6_EbPass
       /\ C6_MultiPass
       /\ (site = "tess" /\ pc = "fit0") =>
              mask' = RuleCentred(5, Resid(y, x, map_soln0, given), wt, given)]_vars

\* C6 amended: eb and the multi-instrument notebook accept exactly the
\* samples, of those accepted so far, with
\* |r - median(r)| < 7 * sqrt(median((r - median(r))^2)); the single pass of
\* tess accepts exactly the samples with |r| < 5 * sqrt(median(r^2)), the
\* residuals not centred on their median.  Both inequalities are strict.
C6_RuleBySite ==
    [][/\ C6_EbPass
       /\ C6_MultiPass
       /\ (site = "tess" /\ pc = "fit0") =>
              mask' = RuleUncentred(5, Resid(y, x, map_soln0, given), wt, given)]_vars

\* tess: the pass rejected some samples and accepted others, where the rule
\* centred on the median would have accepted other samples.
C6_Witness ==
    /\ site = "tess"
    /\ pc = "clipped"
    /\ mask # {}
    /\ mask # given
    /\ mask # RuleCentred(5, Resid(y, x, map_soln0, given), wt, given)

----------------------------------------------------------------------------
(* The scenario: a thousand cadences, five injected outliers *)

\* The loop has ended on the input with injected outliers, the first pass
\* found them beyond ten sigma, and every other residual was within the
\* threshold in every pass.
ScenarioDone == Looping /\ injected # {} /\ planned /\ pc = "done"

\* C7 as stated: in the scenario the loop stops within 2 iterations, and the
\* data it leaves excludes exactly the 5 injected points.
C7_ExcludesInjected ==
    ScenarioDone => (i <= 2 /\ Accepted = given \ injected)

\* C7 amended: in the scenario sigma_clip of eb stops in its 2nd iteration, and
\* its mask excludes exactly the 5 injected points; the loop of the
\* multi-instrument notebook flags the 5 points in its 1st iteration and, 5
\* being fewer than 10, leaves by the break with all 1000 points still in the
\* data.
C7_Scenario ==
    ScenarioDone =>
        /\ site = "eb" => /\ i = 2
                          /\ Accepted = given \ injected
                          /\ SumOver(wt, mask) = 995
        /\ site = "multi" => /\ i = 1
                             /\ exit = "break"
                             /\ clipped["Kepler"] = 5
                             /\ Accepted = given
                             /\ Cadences("Kepler") = 1000

\* eb: the scenario has ended, with 995 of the 1000 cadences accepted.
C7_Witness ==
    /\ ScenarioDone
    /\ site = "eb"
    /\ SumOver(wt, given) = 1000
    /\ SumOver(wt, mask) = 995

----------------------------------------------------------------------------
(* Properties of run_notebooks.sh *)

Range(q) == {q[k] : k \in DOMAIN q}

\* The position in Script of the command named n.
PosOf(n) == CHOOSE k \in DOMAIN Script : Script[k].name = n

\* A command of a line before the line of the push.
BeforePush(n) == Script[PosOf(n)].line < Script[PosOf("push")].line

Ordered(q) ==
    /\ \A k \in DOMAIN q : Cardinality({j \in DOMAIN ran : ran[j] = q[k]}) = 1
    /\ \A k \in 1..(Len(q) - 1) :
           \A j1 \in DOMAIN ran, j2 \in DOMAIN ran :
               (ran[j1] = q[k] /\ ran[j2] = q[k + 1]) => j1 < j2

\* C9 as stated: in a run that reached the end of the script, the environment
\* ./env was set up, then exoplanet was cloned, then the runner ran, then the
\* commit and the push, then the mail.
C9_EnvBeforeClone ==
    status = "done" =>
        Ordered(<<"rm_env", "env_update", "activate_env", "pip_requirements",
                  "pip_exoplanet", "clone", "runner", "commit", "push", "mail">>)

\* C9 amended: in a run that reached the end of the script, exoplanet was
\* cloned, then the environment ./env was set up (from environment.yml of the
\* clone), then the runner ran, then the commit and the push, then the mail,
\* each completing before the next starts.
C9_CloneBeforeEnv ==
    status = "done" =>
        Ordered(<<"clone", "rm_env", "env_update", "activate_env", "pip_requirements",
                  "pip_exoplanet", "runner", "commit", "push", "mail">>)

\* A run that reached the end of the script, with the branch pushed and the
\* mail sent.
C9_Witness ==
    /\ status = "done"
    /\ world.remote.exists
    /\ world.mails >= 1
    /\ world.seen.env = "fresh"

----------------------------------------------------------------------------
(* Properties of the staged optimisation *)

----------------------------------------------------------------------------
(* The remaining sample size *)

\* The robust scale of the residuals r is 0: the median of the squared
\* deviations from the median is 0.
ScaleZero(r, w, S) ==
    /\ S # {}
    /\ LET m2 == TwiceMedian(r, w, S)
       IN TwiceMedian([c \in S |-> (2 * r[c] - m2) * (2 * r[c] - m2)], w, S) = 0

\* C11: no lower bound on the accepted samples is enforced.  A pass whose
\* robust scale is 0 rejects every sample it looked at (eb: the mask becomes
\* empty; multi: all cadences of the light curve are flagged and, unless the
\* loop is left by the break, its arrays become empty), and the loop goes on
\* to its next iteration or ends as after any other pass.
C11_NoFloor ==
    [][/\ (site = "eb" /\ pc = "loop"
           /\ ScaleZero(Resid(y, x, DetFit(fitKind, {x[c] : c \in mask}), mask), wt, mask))
          => (mask' = {} /\ pc' \in {"loop", "done"} /\ exit' \in {"none", "cap"})
       /\ (site = "multi" /\ pc = "loop") =>
             \A name \in Names :
                 ScaleZero(Resid(datasets[name].y, datasets[name].t,
                                 DetFit(fitKind, Times(datasets)), Idx(name)),
                           datasets[name].w, Idx(name))
                 => /\ clipped'[name] = Cadences(name)
                    /\ exit' # "break" => datasets'[name].t = <<>>]_vars

\* sigma_clip of eb has returned with every sample of a light curve clipped:
\* one pass rejected them all, the next saw no sample and took the break.
C11_Witness ==
    /\ site = "eb"
    /\ given # {}
    /\ mask = {}
    /\ pc = "done"
    /\ exit = "break"
    /\ i = 2

----------------------------------------------------------------------------
(* The arrays of the multi-instrument notebook *)

\* The positions of the array d.t whose times are still in the array e.t.
Kept(d, e) == {j \in 1..Len(d.t) : \E k \in 1..Len(e.t) : e.t[k] = d.t[j]}

\* The time, flux and error arrays of every light curve have one length.
C12_EqualLengths ==
    site = "multi" =>
        \A name \in Names :
            /\ Len(datasets[name].t) = Len(datasets[name].y)
            /\ Len(datasets[name].t) = Len(datasets[name].yerr)

\* A step of the loop replaces the three arrays of a light curve by their
\* entries at the same positions, and leaves the exposure time; a step that
\* does not take the break drops the flagged cadences.
C12_Masked ==
    site = "multi" =>
        \A name \in Names :
            LET d == datasets[name]
                e == datasets'[name]
            IN /\ e.texp = d.texp
               /\ e.t = Masked(d.t, Kept(d, e), 1)
               /\ e.y = Masked(d.y, Kept(d, e), 1)
               /\ e.yerr = Masked(d.yerr, Kept(d, e), 1)
               /\ (pc = "loop" /\ exit' # "break") =>
                      SumOver(d.w, Idx(name) \ Kept(d, e)) = clipped'[name]

\* C12: in the multi-instrument loop every continuing iteration replaces the
\* time, flux and error arrays of each light curve by their masked versions,
\* one mask for the three, so that the three arrays always have one length,
\* and the exposure time is never changed.
C12_InPlace == [](C12_EqualLengths) /\ [][C12_Masked]_vars

\* The loop goes on after an iteration that shortened the arrays.
C12_Witness ==
    /\ site = "multi"
    /\ pc = "loop"
    /\ i >= 1
    /\ Times(datasets) # given
    /\ \E name \in Names : clipped[name] >= 10

----------------------------------------------------------------------------
(* A fit that raises inside a loop *)

\* C13: an exception of the fit inside a loop is neither caught nor retried.
\* The step that raises fits no model and changes neither mask nor data; after
\* it the loop is left without having returned, and no further step is taken:
\* no later iteration runs.
C13_Propagates ==
    /\ [](exit = "raise" => pc = "raised")
    /\ [][exit # "raise"]_vars
    /\ [][exit' = "raise" => /\ fits' = fits
                             /\ i' = i
                             /\ model' = model
                             /\ mask' = mask
                             /\ datasets' = datasets]_vars

\* eb: the fit raised in a later iteration, after passes that removed samples.
C13_Witness ==
    /\ site = "eb"
    /\ exit = "raise"
    /\ pc = "raised"
    /\ i >= 2
    /\ mask # given

----------------------------------------------------------------------------
(* The arguments of run_notebooks.sh *)

\* C14: once the runner has run, the arguments it was given are the arguments
\* of the script, every one of them and in their order.
C14_PassedInOrder ==
    (status # "idle" /\ "runner" \in Range(ran)) => world.runnerArgs = <<args>>

----------------------------------------------------------------------------
(* The instruments of rv-multi.ipynb *)

\* The instrument of the row with the velocity v: AAT 0, HARPS before the
\* split 1, HARPS after the split 2.
InstrumentOf(v) ==
    IF v < 200 THEN 0
    ELSE IF rvm.harps[v - 200].post THEN 2 ELSE 1

\* The time and the uncertainty of the row with the velocity v.
TimeOf(v) == IF v < 200 THEN rvm.aat[v - 100] ELSE rvm.harps[v - 200].bjd
ErrOf(v) == IF v < 200 THEN v - 100 ELSE 3 + (v - 200)

\* C15: every point has the instrument of its row (0, 1 or 2), so exactly one
\* indicator (inst_id == i) holds for it; after the sort the times ascend and
\* every position holds the time, velocity, uncertainty and instrument of one
\* row; after the loop over the instruments the point has the offset
\* means[inst_id] and the jitter rv_err^2 + sigmas[inst_id]^2.
C15_OneInstrument ==
    rvm.pc \in {"concatenated", "sorted"} =>
        /\ Len(rvm.t) = Len(rvm.aat) + Len(rvm.harps)
        /\ {rvm.rv[j] : j \in DOMAIN rvm.rv}
             = {100 + k : k \in 1..Len(rvm.aat)} \cup {200 + k : k \in 1..Len(rvm.harps)}
        /\ \A j \in DOMAIN rvm.t :
             /\ rvm.inst_id[j] = InstrumentOf(rvm.rv[j])
             /\ Cardinality({inst \in 0..2 : rvm.inst_id[j] = inst}) = 1
             /\ rvm.t[j] = TimeOf(rvm.rv[j])
             /\ rvm.rv_err[j] = ErrOf(rvm.rv[j])
             /\ (rvm.pc = "sorted" /\ j > 1) => rvm.t[j - 1] <= rvm.t[j]
             /\ (rvm.pc = "sorted" /\ rvm.i = NumInst) =>
                    /\ rvm.mean[j] = Means[rvm.inst_id[j] + 1]
                    /\ rvm.diag[j] = rvm.rv_err[j] * rvm.rv_err[j]
                                     + Sigmas[rvm.inst_id[j] + 1] * Sigmas[rvm.inst_id[j] + 1]

\* The loop over the instruments has ended on points of all three instruments
\* that the sort has reordered.
C15_Witness ==
    /\ rvm.pc = "sorted"
    /\ rvm.i = NumInst
    /\ {rvm.inst_id[j] : j \in DOMAIN rvm.inst_id} = {0, 1, 2}
    /\ rvm.inds # [k \in DOMAIN rvm.inds |-> k]

----------------------------------------------------------------------------
(* What the loops return *)

\* C16: when sigma_clip has returned, by the break or after the tenth
\* iteration, the returned model was fit on the points of the final mask.
C16_FitOnFinalMask ==
    (site = "eb" /\ pc = "done") => model = {x[c] : c \in mask}

\* C17: when the loop over `datasets` has ended, by the break or after the
\* tenth iteration, every light curve of `datasets` has as many points as the
\* last model was conditioned on; the light curves share no time, so the times
\* left in `datasets` are the times of the model.
C17_LengthsAgree ==
    (site = "multi" /\ pc = "done") => model = Times(datasets)

----------------------------------------------------------------------------
(* The chain of the staged optimisation *)

\* C18: in every notebook the calls of xo.optimize form a chain.  The first
\* call starts from the starting vector (model.test_point, or the start given
\* to build_model in tess.ipynb), every later call from the return of the call
\* before it; the calls are made in the order they are written, the next one
\* whatever the calls so far have returned; the last call optimises all
\* parameters.
C18_Chain ==
    /\ [](\A nb \in Notebooks : Len(Chains[nb]) = Stages[nb])
    /\ []((notebook \in Notebooks /\ stage < Stages[notebook]) => ENABLED OptStage)
    /\ [][/\ stage' = stage + 1
          /\ called'.from = (IF stage = 0 THEN start ELSE map_soln)
          /\ called'.vars = Chains[notebook][stage + 1]
          /\ (stage' = Stages[notebook]) = (Len(Chains[notebook]) = stage')
          /\ stage' = Stages[notebook] => called'.vars = AllVars]_vars

\* The last call of the chain of tess.ipynb was made, on all parameters and
\* from the return of the call before it, a call before having returned a
\* vector lower than its start.
C18_Witness ==
    /\ notebook = "tess"
    /\ stage = Stages[notebook]
    /\ called.vars = AllVars
    /\ called.from # start
    /\ ~noWorse

----------------------------------------------------------------------------
(* The one clipping pass of tess.ipynb *)

\* C19: tess.ipynb clips once.  The first fit is on all points, from the test
\* point; the mask is computed once, from the residuals of that fit
\* (map_soln0); the model is rebuilt once, on the points of the mask and with
\* map_soln0 as its start; after that nothing more runs, and from its
\* computation on the mask stays as it is.
C19_OnePass ==
    /\ [](site = "tess" =>
            /\ pc = "fit0" => /\ fits = 1 /\ i = 0
                              /\ model = {x[c] : c \in given}
                              /\ fitStart = TestStart
            /\ pc \in {"clipped", "done"} =>
                              /\ i = 1
                              /\ mask = TessNewMask(map_soln0)
            /\ pc = "clipped" => fits = 1
            /\ pc = "done" => /\ fits = 2
                              /\ model = {x[c] : c \in mask}
                              /\ fitStart = [given |-> TRUE, at |-> map_soln0]
                              /\ ~ENABLED TessClip
                              /\ ~ENABLED TessRefit)
    /\ [][(site = "tess" /\ pc \in {"clipped", "done"}) =>
              /\ mask' = mask
              /\ map_soln0' = map_soln0]_vars

\* The model of tess.ipynb was rebuilt on a mask that left points out, from a
\* first fit away from the test point.
C19_Witness ==
    /\ site = "tess"
    /\ pc = "done"
    /\ mask # given
    /\ map_soln0 # TestStart.at
    /\ fitStart.given

----------------------------------------------------------------------------
(* The aperture of tess.ipynb *)

\* No pixel outside S is brighter than a pixel of S.
Brightest(S) ==
    \A k \in S : \A l \in Pixels \ S : MeanImg(ap.image)[l] <= MeanImg(ap.image)[k]

\* The number of pixels of the candidate at position c of masks.
SizeAt(c) == ApLo + c - 1

\* C20: the candidates are built for i = 10, ..., 99, in this order; candidate
\* i has exactly i pixels, no pixel outside it is brighter than one of its
\* pixels, and it contains the candidate before it; a candidate once built
\* stays as it is.  The aperture selected is a candidate whose scatter no other
\* candidate undercuts, and no candidate of the same scatter has fewer pixels.
C20_Aperture ==
    /\ [](ap.pc \in {"loop", "selected"} =>
            /\ Len(ap.masks) = ap.i - ApLo
            /\ Len(ap.scatters) = Len(ap.masks)
            /\ ap.i <= ApHi
            /\ ap.masks # <<>> =>
                 \E c \in {Len(ap.masks)} :
                    /\ Cardinality(ap.masks[c]) = SizeAt(c)
                    /\ Brightest(ap.masks[c])
                    /\ ap.scatters[c] = EstimateScatter(ap.prof, ap.masks[c])
                    /\ c > 1 => ap.masks[c - 1] \subseteq ap.masks[c])
    /\ [](ap.pc = "selected" =>
            /\ Len(ap.masks) = ApHi - ApLo
            /\ \E c \in DOMAIN ap.masks :
                 /\ ap.pix_mask = ap.masks[c]
                 /\ \A l \in DOMAIN ap.masks :
                      /\ ap.scatters[c] <= ap.scatters[l]
                      /\ ap.scatters[l] = ap.scatters[c] => SizeAt(c) <= SizeAt(l))
    /\ [][ap.pc = "loop" =>
            \A c \in DOMAIN ap.masks :
                /\ ap'.masks[c] = ap.masks[c]
                /\ ap'.scatters[c] = ap.scatters[c]]_vars

\* An aperture was selected among two candidates of the same, smallest scatter,
\* in an image with equally bright pixels.
C20_Witness ==
    /\ ap.pc = "selected"
    /\ ap.image = "peak"
    /\ \E c, l \in DOMAIN ap.masks :
         /\ c # l
         /\ ap.scatters[c] = ap.scatters[l]
         /\ ap.pix_mask = ap.masks[c]
         /\ \A r \in DOMAIN ap.scatters : ap.scatters[c] <= ap.scatters[r]

----------------------------------------------------------------------------
(* The branch that is pushed *)

\* C21: when the runner starts, master was checked out and the branch
\* auto_notebooks was begun anew from it in this run, whatever branch an
\* earlier run left (its deletion may fail; the creation then fails and ends
\* the run); up to the commit the branch is master itself, from the commit on
\* it is master and the one commit of this run, and that is what the push
\* leaves on the remote.
C21_FreshBranch ==
    status # "idle" =>
        /\ "runner" \in Range(ran) =>
               Ordered(<<"checkout_master", "checkout_new", "runner">>)
        /\ ("checkout_new" \in Range(ran) /\ "commit" \notin Range(ran)) =>
               world.auto = [exists |-> TRUE, base |-> world.master, commits |-> <<>>]
        /\ "commit" \in Range(ran) =>
               world.auto = [exists |-> TRUE, base |-> world.master, commits |-> <<runs>>]
        /\ "push" \in Range(ran) => world.remote = world.auto

\* The second run has pushed, after a first run that pushed its own commit.
C21_Witness ==
    /\ runs = 2
    /\ "push" \in Range(ran)
    /\ world.pushes = 2
    /\ world.remote.commits = <<2>>

----------------------------------------------------------------------------
(* The break of the multi-instrument loop *)

\* C22: the iteration that takes the break leaves `datasets` as it was at
\* its start: every light curve had fewer than 10 cadences flagged, and the
\* cadences it flagged are still in the arrays.
C22_BreakAppliesNothing ==
    [][(site = "multi" /\ exit' = "break") =>
          /\ datasets' = datasets
          /\ model' = Times(datasets')
          /\ \A name \in Names : clipped'[name] < 10
          /\ \E theta \in FitOutcomes(Times(datasets)) :
               \A name \in Names :
                   SumOver(datasets'[name].w,
                           {j \in 1..Len(datasets'[name].t) :
                              j \notin MultiMask(theta, name)}) = clipped'[name]]_vars

\* The loop was left by the break in an iteration that flagged cadences in
\* both light curves.
C22_Witness ==
    /\ site = "multi"
    /\ exit = "break"
    /\ \A name \in Names : clipped[name] > 0

----------------------------------------------------------------------------
(* The joint decision of the multi-instrument loop *)

\* The cadences of the light curve name after the step.
CadencesAfter(name) ==
    SumOver(datasets'[name].w, 1..Len(datasets'[name].t))

\* C23: the loop decides for all light curves at once.  An iteration in which
\* some light curve had 10 or more cadences flagged removes from every light
\* curve the cadences flagged in it, also from one with fewer than 10; and an
\* iteration that follows fits the model to all light curves as they were
\* left.
C23_Joint ==
    [][(site = "multi" /\ pc = "loop") =>
          /\ (\E name \in Names : clipped'[name] >= 10) =>
                 /\ exit' # "break"
                 /\ \A name \in Names :
                        CadencesAfter(name) = Cadences(name) - clipped'[name]
          /\ model' = Times(datasets)]_vars

\* The loop goes on after an iteration that removed cadences from both light
\* curves, fewer than 10 from one of them.
C23_Witness ==
    /\ site = "multi"
    /\ pc = "loop"
    /\ \E a, b \in Names :
         /\ clipped[a] >= 10
         /\ clipped[b] \in 1..9

----------------------------------------------------------------------------
(* The accepted data shrink *)

\* C24: in sigma_clip of eb.ipynb num is mask.sum() at the start of every
\* iteration, and an iteration that does not take the break lowers mask.sum()
\* by 1 or more; in the multi-instrument loop an iteration that does not take
\* the break removes 10 or more cadences from some light curve; no iteration
\* of either loop raises the number of accepted cadences.
C24_Shrinks ==
    /\ []((site = "eb" /\ pc = "loop") => num = SumOver(wt, mask))
    /\ [][/\ (site = "eb" /\ pc = "loop") =>
                /\ SumOver(wt, mask') <= SumOver(wt, mask)
                /\ exit' # "break" => SumOver(wt, mask') <= SumOver(wt, mask) - 1
          /\ (site = "multi" /\ pc = "loop") =>
                /\ \A name \in Names : CadencesAfter(name) <= Cadences(name)
                /\ exit' # "break" =>
                      \E name \in Names : CadencesAfter(name) <= Cadences(name) - 10]_vars

\* The multi-instrument loop goes on after a second iteration that removed
\* cadences.
C24_Witness ==
    /\ site = "multi"
    /\ pc = "loop"
    /\ i = 2
    /\ \E name \in Names : clipped[name] >= 10

----------------------------------------------------------------------------
(* An iteration depends on the accepted data alone *)

----------------------------------------------------------------------------
(* The mail *)

\* C26: the mail is sent only at the end of a run in which the runner, the
\* commit and the push completed and master was checked out again: when the
\* mail command has run, no command of the run has failed but, at most, the
\* deletion of the branch, the remote holds the branch of this run, and the
\* head is master; a run that was aborted has sent no mail, and over all runs
\* there are no more mails than pushes.
C26_MailAfterPush ==
    status # "idle" =>
        /\ "mail" \in Range(ran) =>
              /\ status = "done"
              /\ Range(failed) \subseteq {"branch_delete"}
              /\ Ordered(<<"runner", "commit", "push", "checkout_master_end", "mail">>)
              /\ world.remote = world.auto
              /\ world.remote.commits = <<runs>>
              /\ world.head = "master"
        /\ status = "aborted" => "mail" \notin Range(ran)
        /\ world.mails <= world.pushes

\* The second run has sent the only mail: the first run was aborted.
C26_Witness ==
    /\ runs = 2
    /\ "mail" \in Range(ran)
    /\ world.mails = 1
    /\ world.pushes = 1

----------------------------------------------------------------------------
(* What the runner finds *)

\* C27: in every run, also one that follows an aborted run, the runner starts
\* only after this run has removed and cloned exoplanet, removed and built
\* ./env and activated it, and removed the directory theano_cache and
\* exported THEANO_FLAGS with it: the runner finds a fresh clone, a fresh
\* environment that is active, and no cache in the directory the flags name.
C27_FreshSurroundings ==
    (status # "idle" /\ "runner" \in Range(ran)) =>
        /\ Ordered(<<"rm_clone", "clone", "rm_env", "env_update", "activate_env",
                     "cachedir", "rm_cache", "export_flags", "runner">>)
        /\ world.seen = [clone |-> "fresh", env |-> "fresh", active |-> "./env",
                         cache |-> "none", flags |-> TRUE]

\* The runner has run in a second run, the first run having been aborted
\* after its push, with its clone, environment and cache left behind.
C27_Witness ==
    /\ runs = 2
    /\ "runner" \in Range(ran)
    /\ "push" \notin Range(ran)
    /\ world.pushes = 1
    /\ world.mails = 0

----------------------------------------------------------------------------
(* The branch a run leaves checked out *)

\* In a run that created the branch, the branch was created after master was
\* checked out, at master, and holds no commit of an earlier run.
BuiltFromMaster ==
    "checkout_new" \in Range(ran) =>
        /\ Ordered(<<"checkout_master", "checkout_new">>)
        /\ world.auto.exists
        /\ world.auto.base = world.master
        /\ world.auto.commits \in {<<>>, <<runs>>}

\* C28 as stated: a run that reached its end has master checked out; a run
\* aborted after the creation of the branch has auto_notebooks checked out and
\* has pushed nothing; and every run that creates the branch creates it from
\* master.
C28_FailsUnpushed ==
    status # "idle" =>
        /\ status = "done" => world.head = "master"
        /\ (status = "aborted" /\ "checkout_new" \in Range(ran)) =>
               /\ world.head = "auto_notebooks"
               /\ "push" \notin Range(ran)
        /\ BuiltFromMaster

\* C28 amended: a run that reached its end has master checked out; a run
\* aborted after the creation of the branch and no later than at the push has
\* auto_notebooks checked out and has pushed nothing; a run aborted after the
\* push has pushed its branch, and has auto_notebooks checked out if it was
\* aborted no later than at the checkout of line 41, master otherwise; and
\* every run that creates the branch, also one that started with
\* auto_notebooks checked out, creates it from master.
C28_FailsBeforePushUnpushed ==
    status # "idle" =>
        /\ status = "done" => world.head = "master"
        /\ (status = "aborted" /\ "checkout_new" \in Range(ran)) =>
               /\ pos <= PosOf("push") =>
                      /\ world.head = "auto_notebooks"
                      /\ "push" \notin Range(ran)
                      /\ world.remote # world.auto
               /\ pos > PosOf("push") =>
                      /\ "push" \in Range(ran)
                      /\ world.remote = world.auto
                      /\ world.head = (IF pos <= PosOf("checkout_master_end")
                                         THEN "auto_notebooks" ELSE "master")
        /\ BuiltFromMaster

\* A second run, started with auto_notebooks checked out and nothing pushed
\* so far, has reached its end.
C28_Witness ==
    /\ runs = 2
    /\ world.startHead = "auto_notebooks"
    /\ status = "done"
    /\ world.pushes = 1
    /\ world.remote.commits = <<2>>

====
